---------------------------- MODULE Spec2Model ----------------------------
(***************************************************************************)
(* fastauth: the token-embedded authorization engine.                      *)
(*                                                                         *)
(* The state is the user / role / permission store (the SQL tables), the   *)
(* wall clock in whole seconds, the set of tokens the service has minted   *)
(* and the response of the handler that ran last.  Every handler is one    *)
(* action.  Three specifications share the definitions:                    *)
(*   Spec       the session life cycle: login, refresh, authenticate and   *)
(*              the store operations that change accounts and roles;       *)
(*   SpecPred   the permission predicates evaluated on principals that     *)
(*              login and the store operations produce;                    *)
(*   SpecCodec  the credential codec (create_*_token, verify_token)        *)
(*              applied to inputs drawn from bounded sets.                 *)
(***************************************************************************)
EXTENDS Integers, Sequences, FiniteSets, TLC

VARIABLES
    users,                  \* table user: id -> row
    roles,                  \* table role: id -> row
    permissions,            \* table permission: id -> row
    user_role_links,        \* table user_roles: set of <<user_id, role_id>>
    role_permission_links,  \* table role_permissions: set of <<role_id, permission_id>>
    now,                    \* datetime.utcnow() in whole seconds
    tokens,                 \* every token string the service has returned
    issued,                 \* history: what each minted token was made from
    store_ops,              \* number of store operations performed so far
    resp,                   \* the response of the handler that ran last
    calls                   \* the refresh requests in flight: request -> its locals

vars == <<users, roles, permissions, user_role_links, role_permission_links,
          now, tokens, issued, store_ops, resp, calls>>

store == <<users, roles, permissions, user_role_links, role_permission_links>>

-----------------------------------------------------------------------------
(* Bounds of the model. *)

MaxStoreOps == 1
MaxTokens == 4
MaxListLen == 2

(* Settings (core/config.py). *)
ACCESS_TOKEN_EXPIRE_MINUTES == 30
REFRESH_TOKEN_EXPIRE_DAYS == 7
SECRET_KEY == "secret_key"

SecondsPerMinute == 60
SecondsPerDay == 86400

AccessTtl == ACCESS_TOKEN_EXPIRE_MINUTES * SecondsPerMinute
RefreshTtl == REFRESH_TOKEN_EXPIRE_DAYS * SecondsPerDay

(* UserStatus (models/user.py). *)
ACTIVE == "active"
INACTIVE == "inactive"
SUSPENDED == "suspended"
UserStatus == {ACTIVE, INACTIVE, SUSPENDED}

(* Optional[T]: None is the empty tuple and a present value v is <<v>>. *)
None == << >>
Some(v) == <<v>>

-----------------------------------------------------------------------------
(* Python helpers. *)

\* dict.get(key, default)
Get(d, key, default) == IF key \in DOMAIN d THEN d[key] ELSE default

\* dict.update / dict with one more key
Put(d, key, value) ==
    [k \in (DOMAIN d) \cup {key} |-> IF k = key THEN value ELSE d[k]]

\* truthiness of an optional list: None and [] are both falsy
TruthyList(opt) == opt # None /\ opt[1] # << >>

\* truthiness of an optional timedelta: None and timedelta(0) are both falsy
TruthyDelta(opt) == opt # None /\ opt[1] # 0

Digit(n) == CASE n = 0 -> "0" [] n = 1 -> "1" [] n = 2 -> "2" [] n = 3 -> "3"
              [] n = 4 -> "4" [] n = 5 -> "5" [] n = 6 -> "6" [] n = 7 -> "7"
              [] n = 8 -> "8" [] n = 9 -> "9"

DigitValue(c) == CHOOSE n \in 0..9 : Digit(n) = c

\* str(n) for n >= 0, as the sequence of its decimal digits
RECURSIVE str(_)
str(n) == IF n < 10 THEN <<Digit(n)>> ELSE Append(str(n \div 10), Digit(n % 10))

\* int(s) for a string of decimal digits
RECURSIVE int(_)
int(s) == IF Len(s) = 1 THEN DigitValue(s[1])
          ELSE 10 * int(SubSeq(s, 1, Len(s) - 1)) + DigitValue(s[Len(s)])

\* The elements of a finite set of integers in increasing order.
RECURSIVE SortedSeq(_)
SortedSeq(S) ==
    IF S = {} THEN << >>
    ELSE LET m == CHOOSE x \in S : \A y \in S : x <= y
         IN <<m>> \o SortedSeq(S \ {m})

Range(s) == {s[i] : i \in 1..Len(s)}

\* All sequences over S of length at most n.
SeqsUpTo(S, n) == UNION {[1..k -> S] : k \in 0..n}

-----------------------------------------------------------------------------
(* The store: models/*.py and the queries of crud/*.py. *)

UserIds == {1, 2}
RoleIds == {1, 2}
PermissionIds == {1, 2}

Emails == {"u1@x", "u2@x", "new@x"}
Passwords == {"pw1", "pw2"}

\* passlib's bcrypt context: a hash verifies exactly the password it was made of
get_password_hash(password) == <<"bcrypt", password>>
verify_password(plain_password, hashed_password) ==
    hashed_password = <<"bcrypt", plain_password>>

UserRow(id, email, password, su) ==
    [id |-> id, email |-> email, is_active |-> TRUE, is_superuser |-> su,
     status |-> ACTIVE, hashed_password |-> get_password_hash(password)]

UserExists(user_id) == user_id \in DOMAIN users

\* select(User).where(User.email == email): the ids of the matching rows
UsersByEmail(email) == {i \in DOMAIN users : users[i].email = email}

\* (mutant) the join without its Role.is_active filter
UserRoleIds_any_status(user_id) ==
    {r \in DOMAIN roles : <<user_id, r>> \in user_role_links}

\* Rows come back in primary-key order.
UserRoleIds(user_id) ==
    {r \in DOMAIN roles : <<user_id, r>> \in user_role_links /\ roles[r].is_active}

get_user_roles(user_id) ==
    LET ids == SortedSeq(UserRoleIds(user_id))
    IN [i \in 1..Len(ids) |-> roles[ids[i]]]

\* (mutant) the join without its Role.is_active filter
UserPermissionIds_any_role(user_id) ==
    {p \in DOMAIN permissions :
        \E r \in DOMAIN roles :
            <<user_id, r>> \in user_role_links /\ <<r, p>> \in role_permission_links}

UserPermissionIds(user_id) ==
    {p \in DOMAIN permissions :
        \E r \in UserRoleIds(user_id) : <<r, p>> \in role_permission_links}

get_user_permissions(user_id) ==
    LET ids == SortedSeq(UserPermissionIds(user_id))
    IN [i \in 1..Len(ids) |-> permissions[ids[i]]]

-----------------------------------------------------------------------------
(* The credential codec: core/security.py.                                 *)
(*                                                                         *)
(* A token string is modelled by what it decodes to: its claims and the    *)
(* key that signed it.  python-jose's jwt.encode writes exp as whole       *)
(* seconds; jwt.decode raises JWTError for a signature made with another   *)
(* key and ExpiredSignatureError (a JWTError) when exp < now.              *)

jwt_encode(claims, key) == [claims |-> claims, key |-> key]

\* jwt.decode does not raise
jwt_decode_ok(token, key) ==
    /\ token.key = key
    /\ ("exp" \in DOMAIN token.claims => ~(token.claims["exp"] < now))

create_token_data(user_id, email, is_superuser) ==
    [sub |-> str(user_id), email |-> email, is_superuser |-> is_superuser]

AccessExpire(expires_delta) ==
    IF TruthyDelta(expires_delta)
    THEN now + expires_delta[1]
    ELSE now + AccessTtl

\* (mutant) the encoder that never writes the permissions claim
create_access_token_without_permissions(data, role_names, permission_data, expires_delta) ==
    LET expire == AccessExpire(expires_delta)
        with_roles == IF TruthyList(role_names)
                      THEN Put(data, "roles", role_names[1]) ELSE data
        to_encode == Put(Put(with_roles, "exp", expire), "type", "access")
    IN jwt_encode(to_encode, SECRET_KEY)

create_access_token(data, role_names, permission_data, expires_delta) ==
    LET expire == AccessExpire(expires_delta)
        with_roles == IF TruthyList(role_names)
                      THEN Put(data, "roles", role_names[1]) ELSE data
        with_perms == IF TruthyList(permission_data)
                      THEN Put(with_roles, "permissions", permission_data[1])
                      ELSE with_roles
        to_encode == Put(Put(with_perms, "exp", expire), "type", "access")
    IN jwt_encode(to_encode, SECRET_KEY)

create_refresh_token(data) ==
    LET expire == now + RefreshTtl
        to_encode == Put(Put(data, "exp", expire), "type", "refresh")
    IN jwt_encode(to_encode, SECRET_KEY)

\* (mutant) the decode without the comparison of the type claim
verify_token_any_type(token, token_type) ==
    IF jwt_decode_ok(token, SECRET_KEY) THEN Some(token.claims) ELSE None

\* Some(payload), or None
verify_token(token, token_type) ==
    IF jwt_decode_ok(token, SECRET_KEY)
    THEN IF Get(token.claims, "type", "") # token_type
         THEN None
         ELSE Some(token.claims)
    ELSE None

extract_user_roles(token_payload) == Get(token_payload, "roles", << >>)

extract_user_permissions(token_payload) == Get(token_payload, "permissions", << >>)

user_has_permission_in_token(token_payload, resource, action) ==
    IF Get(token_payload, "is_superuser", FALSE)
    THEN TRUE
    ELSE \E i \in 1..Len(extract_user_permissions(token_payload)) :
            LET perm == extract_user_permissions(token_payload)[i]
            IN perm.resource = resource /\ perm.action = action

user_has_role_in_token(token_payload, role_name) ==
    role_name \in Range(extract_user_roles(token_payload))

-----------------------------------------------------------------------------
(* The authenticator and the permission predicates: core/deps.py.          *)
(* A dependency returns a result: status 200 with the principal, or the    *)
(* HTTPException it raises (status and detail).                            *)

HTTPException(status_code, detail) == [status |-> status_code, detail |-> detail]

\* (mutant) the principal's identity copied from the token instead of the row
TokenUser_identity_from_token(user, token_payload) ==
    [user |-> user, token_payload |-> token_payload,
     id |-> user.id, email |-> token_payload["email"], is_active |-> user.is_active,
     is_superuser |-> token_payload["is_superuser"], status |-> user.status]

TokenUser(user, token_payload) ==
    [user |-> user, token_payload |-> token_payload,
     id |-> user.id, email |-> user.email, is_active |-> user.is_active,
     is_superuser |-> user.is_superuser, status |-> user.status]

PrincipalRoles(principal) == extract_user_roles(principal.token_payload)
PrincipalPermissions(principal) == extract_user_permissions(principal.token_payload)

has_permission(principal, resource, action) ==
    user_has_permission_in_token(principal.token_payload, resource, action)

\* (mutant) the authenticator without its account-state check
get_current_user_skips_liveness(token) ==
    LET payload == verify_token(token, "access")
    IN IF payload = None
       THEN HTTPException(401, "Could not validate credentials")
       ELSE IF "sub" \notin DOMAIN payload[1]
       THEN HTTPException(401, "Could not validate credentials")
       ELSE IF ~UserExists(int(payload[1]["sub"]))
       THEN HTTPException(401, "User not found")
       ELSE [status |-> 200,
             principal |-> TokenUser(users[int(payload[1]["sub"])], payload[1])]

\* (mutant) the authenticator answering 400 for a subject that no longer exists
get_current_user_missing_user_disabled(token) ==
    LET payload == verify_token(token, "access")
    IN IF payload = None
       THEN HTTPException(401, "Could not validate credentials")
       ELSE IF "sub" \notin DOMAIN payload[1]
       THEN HTTPException(401, "Could not validate credentials")
       ELSE IF ~UserExists(int(payload[1]["sub"]))
       THEN HTTPException(400, "User account is inactive or suspended")
       ELSE LET user == users[int(payload[1]["sub"])]
            IN IF ~user.is_active \/ user.status # ACTIVE
               THEN HTTPException(400, "User account is inactive or suspended")
               ELSE [status |-> 200, principal |-> TokenUser(user, payload[1])]

\* (mutant) the authenticator naming the missing subject in its error
get_current_user_names_missing_subject(token) ==
    LET payload == verify_token(token, "access")
    IN IF payload = None
       THEN HTTPException(401, "Could not validate credentials")
       ELSE IF "sub" \notin DOMAIN payload[1]
       THEN HTTPException(401, "Token has no subject")
       ELSE IF ~UserExists(int(payload[1]["sub"]))
       THEN HTTPException(401, "User not found")
       ELSE LET user == users[int(payload[1]["sub"])]
            IN IF ~user.is_active \/ user.status # ACTIVE
               THEN HTTPException(400, "User account is inactive or suspended")
               ELSE [status |-> 200, principal |-> TokenUser(user, payload[1])]

get_current_user(token) ==
    LET payload == verify_token(token, "access")
    IN IF payload = None
       THEN HTTPException(401, "Could not validate credentials")
       ELSE IF "sub" \notin DOMAIN payload[1]
       THEN HTTPException(401, "Could not validate credentials")
       ELSE IF ~UserExists(int(payload[1]["sub"]))
       THEN HTTPException(401, "User not found")
       ELSE LET user == users[int(payload[1]["sub"])]
            IN IF ~user.is_active \/ user.status # ACTIVE
               THEN HTTPException(400, "User account is inactive or suspended")
               ELSE [status |-> 200, principal |-> TokenUser(user, payload[1])]

Forbidden(required) == HTTPException(403, <<"Not enough permissions", required>>)

\* require_permission(resource, action) applied to get_current_user's result
require_permission(resource, action, current) ==
    IF current.status # 200 THEN current
    ELSE IF ~has_permission(current.principal, resource, action)
    THEN Forbidden(<<<<resource, action>>>>)
    ELSE current

\* require_any_permission(permissions): a list of <<resource, action>>
require_any_permission(perms, current) ==
    IF current.status # 200 THEN current
    ELSE IF \E i \in 1..Len(perms) :
               has_permission(current.principal, perms[i][1], perms[i][2])
    THEN current
    ELSE Forbidden(perms)

\* require_all_permissions(permissions): fails at the first pair not held
require_all_permissions(perms, current) ==
    IF current.status # 200 THEN current
    ELSE LET missing == {i \in 1..Len(perms) :
                 ~has_permission(current.principal, perms[i][1], perms[i][2])}
         IN IF missing # {}
            THEN Forbidden(<<perms[CHOOSE i \in missing : \A j \in missing : i <= j]>>)
            ELSE current

\* (mutant) the predicate without its own-id branch
require_self_or_permission_without_self(resource, action, target_user_id, current) ==
    IF current.status # 200 THEN current
    ELSE IF ~has_permission(current.principal, resource, action)
    THEN Forbidden(<<<<resource, action>>>>)
    ELSE current

require_self_or_permission(resource, action, target_user_id, current) ==
    IF current.status # 200 THEN current
    ELSE IF current.principal.id = target_user_id THEN current
    ELSE IF ~has_permission(current.principal, resource, action)
    THEN Forbidden(<<<<resource, action>>>>)
    ELSE current

-----------------------------------------------------------------------------
(* The session issuer: api/auth.py and crud/user.py authenticate_user.     *)

\* (mutant) the credential check without its status test
authenticate_user_ignores_status(email, password) ==
    IF UsersByEmail(email) = {} THEN None
    ELSE LET user == users[CHOOSE i \in UsersByEmail(email) : TRUE]
         IN IF ~user.is_active THEN None
            ELSE IF ~verify_password(password, user.hashed_password) THEN None
            ELSE Some(user)

\* Some(user), or None
authenticate_user(email, password) ==
    IF UsersByEmail(email) = {} THEN None
    ELSE LET user == users[CHOOSE i \in UsersByEmail(email) : TRUE]
         IN IF ~user.is_active THEN None
            ELSE IF user.status # ACTIVE THEN None
            ELSE IF ~verify_password(password, user.hashed_password) THEN None
            ELSE Some(user)

RoleNames(user_id) ==
    LET user_roles == get_user_roles(user_id)
    IN [i \in 1..Len(user_roles) |-> user_roles[i].name]

PermissionData(user_id) ==
    LET user_permissions == get_user_permissions(user_id)
    IN [i \in 1..Len(user_permissions) |->
           [resource |-> user_permissions[i].resource,
            action |-> user_permissions[i].action]]

create_user_tokens(user) ==
    LET token_data == create_token_data(user.id, user.email, user.is_superuser)
    IN [access_token |-> create_access_token(token_data, Some(RoleNames(user.id)),
                                             Some(PermissionData(user.id)), None),
        refresh_token |-> create_refresh_token(token_data),
        token_type |-> "bearer"]

\* The history entry of a minted access token: the arguments it was made from.
IssuedAccess(token, data, role_names, permission_data, expires_delta) ==
    [token |-> token, kind |-> "access", data |-> data, roles |-> role_names,
     permissions |-> permission_data, expires_delta |-> expires_delta, at |-> now]

IssuedRefresh(token, data) ==
    [token |-> token, kind |-> "refresh", data |-> data, roles |-> None,
     permissions |-> None, expires_delta |-> None, at |-> now]

IssuedPair(user, pair) ==
    LET token_data == create_token_data(user.id, user.email, user.is_superuser)
    IN {IssuedAccess(pair.access_token, token_data, Some(RoleNames(user.id)),
                     Some(PermissionData(user.id)), None),
        IssuedRefresh(pair.refresh_token, token_data)}

login(email, password) ==
    LET user == authenticate_user(email, password)
    IN IF user = None
       THEN HTTPException(401, "Incorrect email or password")
       ELSE [status |-> 200, pair |-> create_user_tokens(user[1]), user |-> user[1]]

\* The refresh requests the server handles at the same time, and the state
\* in which none has arrived.
Requests == {1, 2}

NoCalls == [r \in Requests |-> [pc |-> "idle"]]

\* (mutant) refresh that accepts a refresh token once
refresh_token_single_use(token) ==
    LET payload == verify_token(token, "refresh")
    IN IF payload = None
       THEN HTTPException(401, "Invalid refresh token")
       ELSE IF "sub" \notin DOMAIN payload[1]
       THEN HTTPException(401, "Invalid refresh token")
       ELSE IF \E r \in Requests :
                  /\ calls[r].pc = "done"
                  /\ calls[r].token = token
                  /\ calls[r].result.status = 200
       THEN HTTPException(401, "Invalid refresh token")
       ELSE IF ~UserExists(int(payload[1]["sub"]))
               \/ ~users[int(payload[1]["sub"])].is_active
       THEN HTTPException(401, "User not found or inactive")
       ELSE LET user == users[int(payload[1]["sub"])]
            IN [status |-> 200, pair |-> create_user_tokens(user), user |-> user]

refresh_token(token) ==
    LET payload == verify_token(token, "refresh")
    IN IF payload = None
       THEN HTTPException(401, "Invalid refresh token")
       ELSE IF "sub" \notin DOMAIN payload[1]
       THEN HTTPException(401, "Invalid refresh token")
       ELSE IF ~UserExists(int(payload[1]["sub"]))
               \/ ~users[int(payload[1]["sub"])].is_active
       THEN HTTPException(401, "User not found or inactive")
       ELSE LET user == users[int(payload[1]["sub"])]
            IN [status |-> 200, pair |-> create_user_tokens(user), user |-> user]

-----------------------------------------------------------------------------
(* Store operations: crud/user.py, crud/rbac.py, crud/role.py.             *)
(* Each takes the tables it reads and returns the tables it leaves.        *)

SetAccount(user_id, active, status) ==
    IF UserExists(user_id)
    THEN [users EXCEPT ![user_id].is_active = active, ![user_id].status = status]
    ELSE users

activate_user(user_id) == SetAccount(user_id, TRUE, ACTIVE)
deactivate_user(user_id) == SetAccount(user_id, FALSE, INACTIVE)
suspend_user(user_id) == SetAccount(user_id, FALSE, SUSPENDED)

\* session.delete(user): the row and, through the relationship's secondary
\* table, its user_roles rows
delete_user_rows(user_id) ==
    [i \in (DOMAIN users) \ {user_id} |-> users[i]]
delete_user_links(user_id) ==
    {l \in user_role_links : l[1] # user_id}

HasDuplicates(seq) == \E i, j \in 1..Len(seq) : i # j /\ seq[i] = seq[j]

\* assign_roles_to_user: the links after the delete-all and the inserts
assign_roles_to_user(user_id, role_ids) ==
    {l \in user_role_links : l[1] # user_id}
        \cup {<<user_id, role_ids[i]>> : i \in 1..Len(role_ids)}

\* assign_permissions_to_role: the links after the delete-all and the inserts
assign_permissions_to_role(role_id, permission_ids) ==
    {l \in role_permission_links : l[1] # role_id}
        \cup {<<role_id, permission_ids[i]>> : i \in 1..Len(permission_ids)}

\* update_user: user_update maps the fields the request set to Optional values
\* (model_dump(exclude_unset=True)); the columns are NOT NULL and email is unique.
UpdateData(user_update) ==
    [f \in (DOMAIN user_update) \ {"role_ids"} |-> user_update[f]]

UpdateUserIntegrityError(user_id, user_update) ==
    \/ \E f \in DOMAIN UpdateData(user_update) : user_update[f] = None
    \/ /\ "email" \in DOMAIN user_update
       /\ user_update["email"] # None
       /\ \E i \in (DOMAIN users) \ {user_id} : users[i].email = user_update["email"][1]
    \/ /\ Get(user_update, "role_ids", None) # None
       /\ HasDuplicates(user_update["role_ids"][1])

update_user_rows(user_id, user_update) ==
    [users EXCEPT ![user_id] =
        [f \in DOMAIN users[user_id] |->
            IF f \in DOMAIN UpdateData(user_update)
            THEN user_update[f][1]
            ELSE users[user_id][f]]]

update_user_links(user_id, user_update) ==
    IF Get(user_update, "role_ids", None) # None
    THEN assign_roles_to_user(user_id, user_update["role_ids"][1])
    ELSE user_role_links

-----------------------------------------------------------------------------
(* The initial store: two registered users, user 1 possibly created by the *)
(* create-superuser command, the roles editor and admin and the            *)
(* permissions (doc, write) and (doc, delete).                             *)

SeedRoles ==
    (1 :> [id |-> 1, name |-> "editor", is_active |-> TRUE])
        @@ (2 :> [id |-> 2, name |-> "admin", is_active |-> TRUE])

SeedPermissions ==
    (1 :> [id |-> 1, name |-> "doc:write", resource |-> "doc", action |-> "write"])
        @@ (2 :> [id |-> 2, name |-> "doc:delete", resource |-> "doc", action |-> "delete"])

SeedStore(su) ==
    /\ users = (1 :> UserRow(1, "u1@x", "pw1", su))
                  @@ (2 :> UserRow(2, "u2@x", "pw2", FALSE))
    /\ roles = SeedRoles
    /\ permissions = SeedPermissions
    /\ user_role_links = {<<1, 1>>}
    /\ role_permission_links = {<<1, 1>>, <<2, 1>>, <<2, 2>>}

Idle ==
    /\ now = 0
    /\ tokens = {}
    /\ issued = {}
    /\ store_ops = 0
    /\ resp = [op |-> "startup"]
    /\ calls = NoCalls

Init == (\E su \in BOOLEAN : SeedStore(su)) /\ Idle

\* The claims of a minted token signed with another key.
Forge(token) == [token EXCEPT !.key = "attacker_key"]

\* The instants at which the session life cycle is observed: issuance, after
\* the access lifetime, after the refresh lifetime.
Instants == {0, AccessTtl + 1, RefreshTtl + 1}

-----------------------------------------------------------------------------
(* Actions: one per handler. *)

Advance(instants) ==
    /\ \E t \in instants : t > now /\ now' = t
    /\ UNCHANGED <<store, tokens, issued, store_ops, resp, calls>>

Mint(result) ==
    IF result.status = 200
    THEN /\ tokens' = tokens \cup {result.pair.access_token, result.pair.refresh_token}
         /\ issued' = issued \cup IssuedPair(result.user, result.pair)
    ELSE UNCHANGED <<tokens, issued>>

Login(email, password) ==
    LET result == login(email, password)
    IN /\ Cardinality(tokens) + 2 <= MaxTokens
       /\ Mint(result)
       /\ resp' = [op |-> "login", email |-> email, password |-> password,
                   result |-> result]
       /\ UNCHANGED <<store, now, store_ops, calls>>

Refresh(token) ==
    LET result == refresh_token(token)
    IN /\ Cardinality(tokens) + 2 <= MaxTokens
       /\ Mint(result)
       /\ resp' = [op |-> "refresh", token |-> token, at |-> now, result |-> result]
       /\ UNCHANGED <<store, now, store_ops, calls>>

GetCurrentUser(token) ==
    /\ resp' = [op |-> "get_current_user", token |-> token, at |-> now,
                result |-> get_current_user(token)]
    /\ UNCHANGED <<store, now, tokens, issued, store_ops, calls>>

StoreOp == store_ops < MaxStoreOps /\ store_ops' = store_ops + 1

ActivateUser(user_id) ==
    /\ StoreOp
    /\ users' = activate_user(user_id)
    /\ resp' = [op |-> "activate_user", user_id |-> user_id,
                result |-> UserExists(user_id)]
    /\ UNCHANGED <<roles, permissions, user_role_links, role_permission_links,
                   now, tokens, issued, calls>>

DeactivateUser(user_id) ==
    /\ StoreOp
    /\ users' = deactivate_user(user_id)
    /\ resp' = [op |-> "deactivate_user", user_id |-> user_id,
                result |-> UserExists(user_id)]
    /\ UNCHANGED <<roles, permissions, user_role_links, role_permission_links,
                   now, tokens, issued, calls>>

SuspendUser(user_id) ==
    /\ StoreOp
    /\ users' = suspend_user(user_id)
    /\ resp' = [op |-> "suspend_user", user_id |-> user_id,
                result |-> UserExists(user_id)]
    /\ UNCHANGED <<roles, permissions, user_role_links, role_permission_links,
                   now, tokens, issued, calls>>

DeleteUser(user_id) ==
    /\ StoreOp
    /\ IF UserExists(user_id)
       THEN /\ users' = delete_user_rows(user_id)
            /\ user_role_links' = delete_user_links(user_id)
       ELSE UNCHANGED <<users, user_role_links>>
    /\ resp' = [op |-> "delete_user", user_id |-> user_id,
                result |-> UserExists(user_id)]
    /\ UNCHANGED <<roles, permissions, role_permission_links, now, tokens, issued, calls>>

\* update_user: None for a missing user, a database error (nothing committed)
\* for a violated constraint, the updated row otherwise
UpdateUser(user_id, user_update) ==
    /\ StoreOp
    /\ IF ~UserExists(user_id)
       THEN /\ resp' = [op |-> "update_user", user_id |-> user_id,
                        user_update |-> user_update, result |-> "None"]
            /\ UNCHANGED <<users, user_role_links>>
       ELSE IF UpdateUserIntegrityError(user_id, user_update)
       THEN /\ resp' = [op |-> "update_user", user_id |-> user_id,
                        user_update |-> user_update, result |-> "IntegrityError"]
            /\ UNCHANGED <<users, user_role_links>>
       ELSE /\ users' = update_user_rows(user_id, user_update)
            /\ user_role_links' = update_user_links(user_id, user_update)
            /\ resp' = [op |-> "update_user", user_id |-> user_id,
                        user_update |-> user_update, result |-> "updated"]
    /\ UNCHANGED <<roles, permissions, role_permission_links, now, tokens, issued, calls>>

AssignRolesToUser(user_id, role_ids) ==
    /\ StoreOp
    /\ IF HasDuplicates(role_ids)
       THEN /\ resp' = [op |-> "assign_roles_to_user", user_id |-> user_id,
                        role_ids |-> role_ids, result |-> "IntegrityError"]
            /\ UNCHANGED user_role_links
       ELSE /\ user_role_links' = assign_roles_to_user(user_id, role_ids)
            /\ resp' = [op |-> "assign_roles_to_user", user_id |-> user_id,
                        role_ids |-> role_ids, result |-> "True"]
    /\ UNCHANGED <<users, roles, permissions, role_permission_links, now, tokens, issued, calls>>

AssignPermissionsToRole(role_id, permission_ids) ==
    /\ StoreOp
    /\ IF HasDuplicates(permission_ids)
       THEN /\ resp' = [op |-> "assign_permissions_to_role", role_id |-> role_id,
                        permission_ids |-> permission_ids, result |-> "IntegrityError"]
            /\ UNCHANGED role_permission_links
       ELSE /\ role_permission_links' = assign_permissions_to_role(role_id, permission_ids)
            /\ resp' = [op |-> "assign_permissions_to_role", role_id |-> role_id,
                        permission_ids |-> permission_ids, result |-> "True"]
    /\ UNCHANGED <<users, roles, permissions, user_role_links, now, tokens, issued, calls>>

\* update_role with is_active set
SetRoleActive(role_id, active) ==
    /\ StoreOp
    /\ role_id \in DOMAIN roles
    /\ roles' = [roles EXCEPT ![role_id].is_active = active]
    /\ resp' = [op |-> "update_role", role_id |-> role_id, is_active |-> active]
    /\ UNCHANGED <<users, permissions, user_role_links, role_permission_links,
                   now, tokens, issued, calls>>

\* The request bodies the model sends to update_user.
UserUpdates ==
    {[is_superuser |-> Some(b)] : b \in BOOLEAN}
        \cup {[email |-> Some("new@x")]}
        \cup {[role_ids |-> Some(l)] : l \in {<< >>, <<2>>}}
        \cup {[email |-> Some("new@x"), role_ids |-> Some(<<2>>)]}

RoleIdLists == {<< >>, <<1>>, <<2>>, <<1, 2>>, <<2, 2>>}
PermissionIdLists == {<< >>, <<2>>, <<1, 2>>}

StoreNext ==
    \/ \E u \in UserIds : ActivateUser(u)
    \/ \E u \in UserIds : DeactivateUser(u)
    \/ \E u \in UserIds : SuspendUser(u)
    \/ \E u \in UserIds : DeleteUser(u)
    \/ \E u \in UserIds, upd \in UserUpdates : UpdateUser(u, upd)
    \/ \E u \in UserIds, l \in RoleIdLists : AssignRolesToUser(u, l)
    \/ \E r \in RoleIds, l \in PermissionIdLists : AssignPermissionsToRole(r, l)
    \/ \E r \in RoleIds, b \in BOOLEAN : SetRoleActive(r, b)

Next ==
    \/ Advance(Instants)
    \/ \E e \in Emails, p \in Passwords : Login(e, p)
    \/ \E t \in tokens : Refresh(t)
    \/ \E t \in tokens : GetCurrentUser(t)
    \/ StoreNext

Spec == Init /\ [][Next]_vars

-----------------------------------------------------------------------------
(* SpecPred: the permission predicates (core/deps.py) on the principals    *)
(* that login and the store operations produce.                            *)

RequiredPairs == {<<"doc", "write">>, <<"doc", "delete">>}
RequiredLists == SeqsUpTo(RequiredPairs, MaxListLen)

RequirePermission(token, resource, action) ==
    LET current == get_current_user(token)
    IN /\ resp' = [op |-> "require_permission", token |-> token, at |-> now,
                   required |-> <<<<resource, action>>>>, current |-> current,
                   result |-> require_permission(resource, action, current)]
       /\ UNCHANGED <<store, now, tokens, issued, store_ops, calls>>

RequireAnyPermission(token, perms) ==
    LET current == get_current_user(token)
    IN /\ resp' = [op |-> "require_any_permission", token |-> token, at |-> now,
                   required |-> perms, current |-> current,
                   result |-> require_any_permission(perms, current)]
       /\ UNCHANGED <<store, now, tokens, issued, store_ops, calls>>

RequireAllPermissions(token, perms) ==
    LET current == get_current_user(token)
    IN /\ resp' = [op |-> "require_all_permissions", token |-> token, at |-> now,
                   required |-> perms, current |-> current,
                   result |-> require_all_permissions(perms, current)]
       /\ UNCHANGED <<store, now, tokens, issued, store_ops, calls>>

RequireSelfOrPermission(token, resource, action, target_user_id) ==
    LET current == get_current_user(token)
    IN /\ resp' = [op |-> "require_self_or_permission", token |-> token, at |-> now,
                   required |-> <<<<resource, action>>>>,
                   target_user_id |-> target_user_id, current |-> current,
                   result |-> require_self_or_permission(resource, action,
                                                         target_user_id, current)]
       /\ UNCHANGED <<store, now, tokens, issued, store_ops, calls>>

PredUserUpdates ==
    {[is_superuser |-> Some(b)] : b \in BOOLEAN}
        \cup {[role_ids |-> Some(l)] : l \in {<< >>, <<2>>}}

\* The bearer credentials presented to the protected endpoints.
AccessTokens == {t \in tokens : t.claims["type"] = "access"}

NextPred ==
    \/ \E e \in Emails, p \in Passwords : Login(e, p)
    \/ \E u \in UserIds, upd \in PredUserUpdates : UpdateUser(u, upd)
    \/ \E u \in UserIds : DeactivateUser(u)
    \/ \E t \in AccessTokens, r \in RequiredPairs : RequirePermission(t, r[1], r[2])
    \/ \E t \in AccessTokens, l \in RequiredLists : RequireAnyPermission(t, l)
    \/ \E t \in AccessTokens, l \in RequiredLists : RequireAllPermissions(t, l)
    \/ \E t \in AccessTokens, r \in RequiredPairs, u \in UserIds :
          RequireSelfOrPermission(t, r[1], r[2], u)

SpecPred == Init /\ [][NextPred]_vars

-----------------------------------------------------------------------------
(* SpecCodec: create_access_token, create_refresh_token and verify_token   *)
(* applied to one token made from inputs drawn from bounded sets.          *)

CodecUserIds == {7, 12}
CodecData == {create_token_data(u, "u@x", FALSE) : u \in CodecUserIds}
CodecRoleLists ==
    {None} \cup {Some(l) : l \in SeqsUpTo({"editor", "admin"}, MaxListLen)}
CodecPermissionLists ==
    {None} \cup {Some(l) : l \in SeqsUpTo(
        {[resource |-> "doc", action |-> "write"],
         [resource |-> "doc", action |-> "delete"]}, MaxListLen)}
CodecDeltas == {None, Some(0), Some(1)}

\* Around issuance and around the ends of the default lifetimes.
CodecInstants == {0, 1, 2, AccessTtl, AccessTtl + 1, RefreshTtl, RefreshTtl + 1}

CodecCreateAccess(data, role_names, permission_data, expires_delta) ==
    LET token == create_access_token(data, role_names, permission_data, expires_delta)
    IN /\ tokens = {}
       /\ tokens' = {token}
       /\ issued' = {IssuedAccess(token, data, role_names, permission_data,
                                  expires_delta)}
       /\ resp' = [op |-> "create_access_token", token |-> token, at |-> now]
       /\ UNCHANGED <<store, now, store_ops, calls>>

CodecCreateRefresh(data) ==
    LET token == create_refresh_token(data)
    IN /\ tokens = {}
       /\ tokens' = {token}
       /\ issued' = {IssuedRefresh(token, data)}
       /\ resp' = [op |-> "create_refresh_token", token |-> token, at |-> now]
       /\ UNCHANGED <<store, now, store_ops, calls>>

CodecVerify(token, token_type) ==
    /\ resp' = [op |-> "verify_token", token |-> token, token_type |-> token_type,
                at |-> now, result |-> verify_token(token, token_type)]
    /\ UNCHANGED <<store, now, tokens, issued, store_ops, calls>>

InitCodec == SeedStore(FALSE) /\ Idle

NextCodec ==
    \/ Advance(CodecInstants)
    \/ \E d \in CodecData, r \in CodecRoleLists, p \in CodecPermissionLists,
          x \in CodecDeltas : CodecCreateAccess(d, r, p, x)
    \/ \E d \in CodecData : CodecCreateRefresh(d)
    \/ \E t \in tokens, k \in {"access", "refresh"} : CodecVerify(t, k)
    \/ \E t \in tokens, k \in {"access", "refresh"} : CodecVerify(Forge(t), k)

SpecCodec == InitCodec /\ [][NextCodec]_vars

-----------------------------------------------------------------------------
(* SpecAuth: login, authenticate (get_current_user) and refresh on every   *)
(* kind of credential a caller can present, against accounts whose state   *)
(* the administration changes.                                             *)

\* The token carries a subject claim.
HasSubject(token) == "sub" \in DOMAIN token.claims

\* A string that is not a JWT: jwt.decode raises JWTError.
Malformed == [claims |-> << >>, key |-> "not a token"]

\* The credentials a caller can present: minted tokens, the same claims
\* signed with another key, and a malformed string.
Presentable == tokens \cup {Forge(t) : t \in tokens} \cup {Malformed}

\* create_access_token / create_refresh_token called with data that holds no
\* "sub": the case get_current_user and refresh_token test for.  One such
\* token is made.
CreateTokenWithoutSubject(kind) ==
    LET data == [email |-> "u1@x"]
        token == IF kind = "access"
                 THEN create_access_token(data, None, None, None)
                 ELSE create_refresh_token(data)
    IN /\ \A t \in tokens : HasSubject(t)
       /\ Cardinality(tokens) < MaxTokens
       /\ tokens' = tokens \cup {token}
       /\ issued' = issued \cup
             {IF kind = "access"
              THEN IssuedAccess(token, data, None, None, None)
              ELSE IssuedRefresh(token, data)}
       /\ resp' = [op |-> "create_token", token |-> token, at |-> now]
       /\ UNCHANGED <<store, now, store_ops, calls>>

\* update_user requests that change one of the two account-state columns
AuthUserUpdates ==
    {[is_active |-> Some(FALSE)], [status |-> Some(SUSPENDED)]}

NextAuth ==
    \/ Advance(Instants)
    \/ \E e \in Emails, p \in Passwords : Login(e, p)
    \/ \E k \in {"access", "refresh"} : CreateTokenWithoutSubject(k)
    \/ \E t \in Presentable : Refresh(t)
    \/ \E t \in Presentable : GetCurrentUser(t)
    \/ \E u \in UserIds : DeactivateUser(u)
    \/ \E u \in UserIds : DeleteUser(u)
    \/ \E u \in UserIds, upd \in AuthUserUpdates : UpdateUser(u, upd)

SpecAuth == Init /\ [][NextAuth]_vars

-----------------------------------------------------------------------------
(* SpecSnap: the snapshot login builds, over the permission catalogue and  *)
(* the role assignments the administration endpoints can produce.          *)

\* create_permission: the table with the new row under the next id
create_permission(permission_create) ==
    LET id == Cardinality(DOMAIN permissions) + 1
    IN permissions @@ (id :> [id |-> id, name |-> permission_create.name,
                              resource |-> permission_create.resource,
                              action |-> permission_create.action])

\* select(Permission).where(Permission.name == name): the ids of the matching rows
PermissionsByName(name) == {p \in DOMAIN permissions : permissions[p].name = name}

create_permission_endpoint(permission_create) ==
    IF PermissionsByName(permission_create.name) # {}
    THEN HTTPException(400, "Permission with this name already exists")
    ELSE [status |-> 200, permissions |-> create_permission(permission_create)]

CreatePermission(permission_create) ==
    LET result == create_permission_endpoint(permission_create)
    IN /\ permissions' = IF result.status = 200 THEN result.permissions ELSE permissions
       /\ resp' = [op |-> "create_permission", permission_create |-> permission_create,
                   result |-> result.status]
       /\ UNCHANGED <<users, roles, user_role_links, role_permission_links,
                      now, tokens, issued, store_ops, calls>>

\* The request bodies sent to create_permission_endpoint: a name already
\* taken, a second name for (doc, write), and a new pair.
PermissionCreates ==
    {[name |-> "doc:write", resource |-> "doc", action |-> "write"],
     [name |-> "doc:edit", resource |-> "doc", action |-> "write"],
     [name |-> "doc:read", resource |-> "doc", action |-> "read"]}

SnapPermissionIdLists == {<<1>>, <<3>>, <<1, 3>>, <<1, 2>>, <<3, 4>>}

NextSnap ==
    \/ \E c \in PermissionCreates : CreatePermission(c)
    \/ \E r \in RoleIds, l \in SnapPermissionIdLists :
          Range(l) \subseteq DOMAIN permissions /\ AssignPermissionsToRole(r, l)
    \/ \E u \in UserIds, l \in RoleIdLists : AssignRolesToUser(u, l)
    \/ \E e \in Emails, p \in Passwords : Login(e, p)

SpecSnap == Init /\ [][NextSnap]_vars

-----------------------------------------------------------------------------
(* SpecApi: the user and role administration endpoints (api/users.py,      *)
(* api/rbac.py), called by principals with and without the permissions the *)
(* endpoints require.  An endpoint answers with a response and the tables  *)
(* user and user_roles as it leaves them.                                  *)

\* user_has_permission (crud/rbac.py): the store's answer, not the token's
user_has_permission(user_id, resource, action) ==
    \/ UserExists(user_id) /\ users[user_id].is_superuser
    \/ \E p \in DOMAIN permissions, r \in DOMAIN roles :
          /\ <<r, p>> \in role_permission_links
          /\ <<user_id, r>> \in user_role_links
          /\ permissions[p].resource = resource
          /\ permissions[p].action = action
          /\ roles[r].is_active

\* update_user: None for a missing user, a database error (nothing committed)
\* for a violated constraint, the updated tables otherwise
update_user(user_id, user_update) ==
    IF ~UserExists(user_id)
    THEN [result |-> "None", users |-> users, user_role_links |-> user_role_links]
    ELSE IF UpdateUserIntegrityError(user_id, user_update)
    THEN [result |-> "IntegrityError", users |-> users,
          user_role_links |-> user_role_links]
    ELSE [result |-> "updated", users |-> update_user_rows(user_id, user_update),
          user_role_links |-> update_user_links(user_id, user_update)]

\* user_update.<field> = None for each of the fields: the assignment marks
\* the field as set, so model_dump(exclude_unset=True) keeps it
AssignNone(user_update, fields) ==
    [f \in (DOMAIN user_update) \cup fields |->
        IF f \in fields THEN None ELSE user_update[f]]

\* An endpoint that raised: the response, the tables as they were.
Raised(response) ==
    [response |-> response, users |-> users, user_role_links |-> user_role_links]

\* The answer to a call of update_user made by an endpoint: the unhandled
\* database error becomes 500, None becomes 404.
UpdateUserResponse(user_id, updated) ==
    IF updated.result = "IntegrityError"
    THEN Raised(HTTPException(500, "Database error"))
    ELSE IF updated.result = "None"
    THEN Raised(HTTPException(404, "User not found"))
    ELSE [response |-> [status |-> 200, user |-> updated.users[user_id]],
          users |-> updated.users, user_role_links |-> updated.user_role_links]

\* (mutant) the endpoint without the reset of status and is_active
update_user_endpoint_keeps_account_state(target_user_id, user_id, user_update, current) ==
    LET checked == require_self_or_permission("user", "update", target_user_id, current)
    IN IF checked.status # 200 THEN Raised(checked)
       ELSE IF /\ ~checked.principal.is_superuser
               /\ Get(user_update, "is_superuser", None) # None
       THEN Raised(HTTPException(403, "Cannot modify superuser status"))
       ELSE UpdateUserResponse(user_id, update_user(user_id, user_update))

\* (mutant) the endpoint without the test of is_superuser in the request
update_user_endpoint_any_superuser_change(target_user_id, user_id, user_update, current) ==
    LET checked == require_self_or_permission("user", "update", target_user_id, current)
    IN IF checked.status # 200 THEN Raised(checked)
       ELSE LET current_user == checked.principal
                request ==
                    IF ~current_user.is_superuser /\ current_user.id = user_id
                    THEN AssignNone(user_update, {"status", "is_active"})
                    ELSE user_update
            IN UpdateUserResponse(user_id, update_user(user_id, request))

\* update_user_endpoint: PUT /users/{user_id}.  target_user_id is the
\* parameter of the dependency; it is not in the path, so the request gives
\* it as a query parameter, independently of user_id.
update_user_endpoint(target_user_id, user_id, user_update, current) ==
    LET checked == require_self_or_permission("user", "update", target_user_id, current)
    IN IF checked.status # 200 THEN Raised(checked)
       ELSE LET current_user == checked.principal
                request ==
                    IF ~current_user.is_superuser /\ current_user.id = user_id
                    THEN AssignNone(user_update, {"status", "is_active"})
                    ELSE user_update
            IN IF /\ ~current_user.is_superuser
                  /\ Get(user_update, "is_superuser", None) # None
               THEN Raised(HTTPException(403, "Cannot modify superuser status"))
               ELSE UpdateUserResponse(user_id, update_user(user_id, request))

\* update_my_profile: PUT /users/me/profile
update_my_profile(user_update, current) ==
    IF current.status # 200 THEN Raised(current)
    ELSE LET request == AssignNone(user_update,
                            {"status", "is_active", "is_superuser", "role_ids"})
         IN UpdateUserResponse(current.principal.id,
                               update_user(current.principal.id, request))

\* (mutant) the endpoint without the test of the caller's own id
delete_user_endpoint_allows_own_id(user_id, current) ==
    LET checked == require_permission("user", "delete", current)
    IN IF checked.status # 200 THEN Raised(checked)
       ELSE IF ~UserExists(user_id)
       THEN Raised(HTTPException(404, "User not found"))
       ELSE [response |-> [status |-> 200, message |-> "User deleted successfully"],
             users |-> delete_user_rows(user_id),
             user_role_links |-> delete_user_links(user_id)]

\* delete_user_endpoint: DELETE /users/{user_id}
delete_user_endpoint(user_id, current) ==
    LET checked == require_permission("user", "delete", current)
    IN IF checked.status # 200 THEN Raised(checked)
       ELSE IF checked.principal.id = user_id
       THEN Raised(HTTPException(400, "Cannot delete your own account"))
       ELSE IF ~UserExists(user_id)
       THEN Raised(HTTPException(404, "User not found"))
       ELSE [response |-> [status |-> 200, message |-> "User deleted successfully"],
             users |-> delete_user_rows(user_id),
             user_role_links |-> delete_user_links(user_id)]

\* assign_roles_to_user_endpoint: POST /rbac/users/{user_id}/roles
assign_roles_to_user_endpoint(user_id, role_ids, current) ==
    LET checked == require_permission("role", "update", current)
    IN IF checked.status # 200 THEN Raised(checked)
       ELSE IF HasDuplicates(role_ids)
       THEN Raised(HTTPException(500, "Database error"))
       ELSE [response |-> [status |-> 200, message |-> "Roles assigned successfully"],
             users |-> users,
             user_role_links |-> assign_roles_to_user(user_id, role_ids)]

\* The test both permission views make after the dependency let the caller in.
ViewAllowed(user_id, current_user) ==
    \/ current_user.id = user_id
    \/ current_user.is_superuser
    \/ user_has_permission(current_user.id, "user", "read")

\* get_user_permissions_endpoint: GET /rbac/users/{user_id}/permissions
get_user_permissions_endpoint(user_id, current) ==
    LET checked == require_permission("user", "read", current)
    IN IF checked.status # 200 THEN checked
       ELSE IF ~ViewAllowed(user_id, checked.principal)
       THEN HTTPException(403, "Not enough permissions")
       ELSE [status |-> 200, permissions |-> get_user_permissions(user_id)]

\* check_user_permission_endpoint: GET /rbac/users/{user_id}/check-permission
check_user_permission_endpoint(user_id, resource, action, current) ==
    LET checked == require_permission("user", "read", current)
    IN IF checked.status # 200 THEN checked
       ELSE IF ~ViewAllowed(user_id, checked.principal)
       THEN HTTPException(403, "Not enough permissions")
       ELSE [status |-> 200, user_id |-> user_id, resource |-> resource,
             action |-> action,
             has_permission |-> user_has_permission(user_id, resource, action)]

\* The store of the administration: the permissions the common dependencies
\* name (require_user_read, require_user_update, require_user_delete,
\* require_role_update), role support granting (user, read) and role admin
\* granting all four.
ApiPermissions ==
    (1 :> [id |-> 1, name |-> "user:read", resource |-> "user", action |-> "read"])
        @@ (2 :> [id |-> 2, name |-> "user:update", resource |-> "user",
                  action |-> "update"])
        @@ (3 :> [id |-> 3, name |-> "user:delete", resource |-> "user",
                  action |-> "delete"])
        @@ (4 :> [id |-> 4, name |-> "role:update", resource |-> "role",
                  action |-> "update"])

ApiRoles ==
    (1 :> [id |-> 1, name |-> "support", is_active |-> TRUE])
        @@ (2 :> [id |-> 2, name |-> "admin", is_active |-> TRUE])

\* User 1 is a plain user, a support user, an administrator or the
\* superuser; user 2 is a plain user.
InitApi ==
    /\ \E su \in BOOLEAN :
          users = (1 :> UserRow(1, "u1@x", "pw1", su))
                     @@ (2 :> UserRow(2, "u2@x", "pw2", FALSE))
    /\ roles = ApiRoles
    /\ permissions = ApiPermissions
    /\ user_role_links \in {{}, {<<1, 1>>}, {<<1, 2>>}}
    /\ role_permission_links = {<<1, 1>>, <<2, 1>>, <<2, 2>>, <<2, 3>>, <<2, 4>>}
    /\ Idle

\* The tables an endpoint found, kept with its response.
Before == [users |-> users, user_role_links |-> user_role_links]

UpdateUserEndpoint(token, target_user_id, user_id, user_update) ==
    LET current == get_current_user(token)
        outcome == update_user_endpoint(target_user_id, user_id, user_update, current)
    IN /\ StoreOp
       /\ users' = outcome.users
       /\ user_role_links' = outcome.user_role_links
       /\ resp' = [op |-> "update_user_endpoint", token |-> token, at |-> now,
                   target_user_id |-> target_user_id, user_id |-> user_id,
                   user_update |-> user_update, current |-> current,
                   before |-> Before, result |-> outcome.response]
       /\ UNCHANGED <<roles, permissions, role_permission_links,
                      now, tokens, issued, calls>>

UpdateMyProfile(token, user_update) ==
    LET current == get_current_user(token)
        outcome == update_my_profile(user_update, current)
    IN /\ StoreOp
       /\ users' = outcome.users
       /\ user_role_links' = outcome.user_role_links
       /\ resp' = [op |-> "update_my_profile", token |-> token, at |-> now,
                   user_update |-> user_update, current |-> current,
                   before |-> Before, result |-> outcome.response]
       /\ UNCHANGED <<roles, permissions, role_permission_links,
                      now, tokens, issued, calls>>

DeleteUserEndpoint(token, user_id) ==
    LET current == get_current_user(token)
        outcome == delete_user_endpoint(user_id, current)
    IN /\ StoreOp
       /\ users' = outcome.users
       /\ user_role_links' = outcome.user_role_links
       /\ resp' = [op |-> "delete_user_endpoint", token |-> token, at |-> now,
                   user_id |-> user_id, current |-> current,
                   before |-> Before, result |-> outcome.response]
       /\ UNCHANGED <<roles, permissions, role_permission_links,
                      now, tokens, issued, calls>>

AssignRolesToUserEndpoint(token, user_id, role_ids) ==
    LET current == get_current_user(token)
        outcome == assign_roles_to_user_endpoint(user_id, role_ids, current)
    IN /\ StoreOp
       /\ users' = outcome.users
       /\ user_role_links' = outcome.user_role_links
       /\ resp' = [op |-> "assign_roles_to_user_endpoint", token |-> token,
                   at |-> now, user_id |-> user_id, role_ids |-> role_ids,
                   current |-> current, before |-> Before,
                   result |-> outcome.response]
       /\ UNCHANGED <<roles, permissions, role_permission_links,
                      now, tokens, issued, calls>>

GetUserPermissionsEndpoint(token, user_id) ==
    LET current == get_current_user(token)
    IN /\ resp' = [op |-> "get_user_permissions_endpoint", token |-> token,
                   at |-> now, user_id |-> user_id, current |-> current,
                   result |-> get_user_permissions_endpoint(user_id, current)]
       /\ UNCHANGED <<store, now, tokens, issued, store_ops, calls>>

CheckUserPermissionEndpoint(token, user_id, resource, action) ==
    LET current == get_current_user(token)
    IN /\ resp' = [op |-> "check_user_permission_endpoint", token |-> token,
                   at |-> now, user_id |-> user_id, current |-> current,
                   result |-> check_user_permission_endpoint(user_id, resource,
                                                            action, current)]
       /\ UNCHANGED <<store, now, tokens, issued, store_ops, calls>>

\* The request bodies sent to the update endpoints; is_superuser null is a
\* field the request set to None.
ApiUserUpdates ==
    {[is_superuser |-> Some(TRUE)], [is_superuser |-> None],
     [is_active |-> Some(FALSE)], [status |-> Some(SUSPENDED)],
     [role_ids |-> Some(<<2>>)], [email |-> Some("new@x")]}

ApiRoleIdLists == {<< >>, <<2>>, <<2, 2>>}

NextApi ==
    \/ \E e \in Emails, p \in Passwords : Login(e, p)
    \/ \E t \in AccessTokens, target \in UserIds, u \in UserIds,
          upd \in ApiUserUpdates : UpdateUserEndpoint(t, target, u, upd)
    \/ \E t \in AccessTokens, upd \in ApiUserUpdates : UpdateMyProfile(t, upd)
    \/ \E t \in AccessTokens, u \in UserIds : DeleteUserEndpoint(t, u)
    \/ \E t \in AccessTokens, u \in UserIds, l \in ApiRoleIdLists :
          AssignRolesToUserEndpoint(t, u, l)
    \/ \E t \in AccessTokens, u \in UserIds : GetUserPermissionsEndpoint(t, u)
    \/ \E t \in AccessTokens, u \in UserIds :
          CheckUserPermissionEndpoint(t, u, "user", "update")

SpecApi == InitApi /\ [][NextApi]_vars

-----------------------------------------------------------------------------
(* SpecRefresh: refresh_token (api/auth.py) served for two requests at the *)
(* same time.  A request runs the handler's statements in order; each      *)
(* await on the session is a step at which the other request, or a writer, *)
(* may run.                                                                *)

\* update_user_password: the row with the new hash
update_user_password(user_id, new_password) ==
    IF UserExists(user_id)
    THEN [users EXCEPT ![user_id].hashed_password = get_password_hash(new_password)]
    ELSE users

UpdateUserPassword(user_id, new_password) ==
    /\ StoreOp
    /\ users' = update_user_password(user_id, new_password)
    /\ resp' = [op |-> "update_user_password", user_id |-> user_id,
                result |-> UserExists(user_id)]
    /\ UNCHANGED <<roles, permissions, user_role_links, role_permission_links,
                   now, tokens, issued, calls>>

\* The requests in flight: arrived and not answered.
InFlight == {q \in Requests : calls[q].pc \notin {"idle", "done"}}

\* The handler returns or raises; the record keeps which other requests
\* were in flight at that moment.
Finish(r, result) ==
    /\ calls' = [calls EXCEPT ![r] =
                    [pc |-> "done", token |-> calls[r].token, at |-> calls[r].at,
                     returned_at |-> now, overlapped |-> InFlight \ {r},
                     result |-> result]]
    /\ resp' = [op |-> "refresh_token", request |-> r, token |-> calls[r].token,
                at |-> now, result |-> result]

\* (mutant) a request is refused while or after another one uses the token
RefreshBegin_single_use(r, token) ==
    /\ calls[r].pc = "idle"
    /\ calls' = [calls EXCEPT ![r] =
                    [pc |-> IF \E q \in Requests \ {r} :
                                  calls[q].pc # "idle" /\ calls[q].token = token
                            THEN "reject" ELSE "verify_token",
                     token |-> token, at |-> now]]
    /\ UNCHANGED <<store, now, tokens, issued, store_ops, resp>>

\* the request arrives with its body
RefreshBegin(r, token) ==
    /\ calls[r].pc = "idle"
    /\ calls' = [calls EXCEPT ![r] =
                    [pc |-> "verify_token", token |-> token, at |-> now]]
    /\ UNCHANGED <<store, now, tokens, issued, store_ops, resp>>

\* payload = verify_token(...); user_id = payload.get("sub")
RefreshVerify(r) ==
    LET payload == verify_token(calls[r].token, "refresh")
    IN /\ calls[r].pc \in {"verify_token", "reject"}
       /\ IF calls[r].pc = "reject" \/ payload = None
             \/ "sub" \notin DOMAIN payload[1]
          THEN Finish(r, HTTPException(401, "Invalid refresh token"))
          ELSE /\ calls' = [calls EXCEPT ![r] =
                               [pc |-> "get_user_by_id", token |-> calls[r].token,
                                at |-> calls[r].at, user_id |-> payload[1]["sub"]]]
               /\ UNCHANGED resp
       /\ UNCHANGED <<store, now, tokens, issued, store_ops>>

\* user = await get_user_by_id(session, int(user_id))
RefreshGetUser(r) ==
    LET user_id == int(calls[r].user_id)
    IN /\ calls[r].pc = "get_user_by_id"
       /\ IF ~UserExists(user_id) \/ ~users[user_id].is_active
          THEN Finish(r, HTTPException(401, "User not found or inactive"))
          ELSE /\ calls' = [calls EXCEPT ![r] =
                               [pc |-> "get_user_roles", token |-> calls[r].token,
                                at |-> calls[r].at, user |-> users[user_id]]]
               /\ UNCHANGED resp
       /\ UNCHANGED <<store, now, tokens, issued, store_ops>>

\* user_roles = await get_user_roles(session, user.id)
RefreshGetRoles(r) ==
    /\ calls[r].pc = "get_user_roles"
    /\ calls' = [calls EXCEPT ![r] =
                    [pc |-> "get_user_permissions", token |-> calls[r].token,
                     at |-> calls[r].at, user |-> calls[r].user,
                     user_roles |-> get_user_roles(calls[r].user.id)]]
    /\ UNCHANGED <<store, now, tokens, issued, store_ops, resp>>

\* user_permissions = await get_user_permissions(session, user.id)
RefreshGetPermissions(r) ==
    /\ calls[r].pc = "get_user_permissions"
    /\ calls' = [calls EXCEPT ![r] =
                    [pc |-> "create_tokens", token |-> calls[r].token,
                     at |-> calls[r].at, user |-> calls[r].user,
                     user_roles |-> calls[r].user_roles,
                     user_permissions |-> get_user_permissions(calls[r].user.id)]]
    /\ UNCHANGED <<store, now, tokens, issued, store_ops, resp>>

\* the rest of create_user_tokens, from the rows the request has read
RefreshCreateTokens(r) ==
    LET user == calls[r].user
        token_data == create_token_data(user.id, user.email, user.is_superuser)
        role_names == [i \in 1..Len(calls[r].user_roles) |->
                          calls[r].user_roles[i].name]
        permission_data ==
            [i \in 1..Len(calls[r].user_permissions) |->
                [resource |-> calls[r].user_permissions[i].resource,
                 action |-> calls[r].user_permissions[i].action]]
        access_token == create_access_token(token_data, Some(role_names),
                                            Some(permission_data), None)
        refresh == create_refresh_token(token_data)
        pair == [access_token |-> access_token, refresh_token |-> refresh,
                 token_type |-> "bearer"]
    IN /\ calls[r].pc = "create_tokens"
       /\ Cardinality(tokens \cup {access_token, refresh}) <= MaxTokens
       /\ tokens' = tokens \cup {access_token, refresh}
       /\ issued' = issued \cup
             {IssuedAccess(access_token, token_data, Some(role_names),
                           Some(permission_data), None),
              IssuedRefresh(refresh, token_data)}
       /\ Finish(r, [status |-> 200, pair |-> pair, user |-> user])
       /\ UNCHANGED <<store, now, store_ops>>

\* The new passwords the model sets.
NewPasswords == {"pw3"}

NextRefresh ==
    \/ \E e \in Emails, p \in Passwords : Login(e, p)
    \/ \E t \in tokens : Refresh(t)
    \/ \E r \in Requests, t \in tokens : RefreshBegin(r, t)
    \/ \E r \in Requests : RefreshVerify(r)
    \/ \E r \in Requests : RefreshGetUser(r)
    \/ \E r \in Requests : RefreshGetRoles(r)
    \/ \E r \in Requests : RefreshGetPermissions(r)
    \/ \E r \in Requests : RefreshCreateTokens(r)
    \/ \E u \in UserIds, p \in NewPasswords : UpdateUserPassword(u, p)
    \/ \E u \in UserIds : DeactivateUser(u)

SpecRefresh == Init /\ [][NextRefresh]_vars

-----------------------------------------------------------------------------
(* Vocabulary of the properties. *)

\* The history entries of a token the service minted.
IssuedAs(token, kind) == {e \in issued : e.token = token /\ e.kind = kind}

\* A minted token's signature verifies and its exp has not passed.
Unexpired(token) == token.key = SECRET_KEY /\ token.claims["exp"] >= now

Subject(token) == int(token.claims["sub"])

\* The account cannot be used: deactivate_user and suspend_user leave it so.
Blocked(user_id) ==
    UserExists(user_id)
        /\ (~users[user_id].is_active \/ users[user_id].status # ACTIVE)

\* The store's current answer to "which active roles does the user have" and
\* "which (resource, action) pairs do they grant", as sets.
StoreRoleNames(user_id) ==
    {roles[r].name : r \in {x \in DOMAIN roles :
        <<user_id, x>> \in user_role_links /\ roles[x].is_active}}

StorePermissionPairs(user_id) ==
    {<<permissions[p].resource, permissions[p].action>> :
        p \in {x \in DOMAIN permissions :
            \E r \in DOMAIN roles :
                /\ roles[r].is_active
                /\ <<user_id, r>> \in user_role_links
                /\ <<r, x>> \in role_permission_links}}

PayloadPermissionPairs(payload) ==
    {<<p.resource, p.action>> : p \in Range(extract_user_permissions(payload))}

-----------------------------------------------------------------------------
(* C1: while an account is deactivated or suspended, authenticate          *)
(* (get_current_user) on an access token minted for it and still unexpired *)
(* answers 400 "User account is inactive or suspended" and returns no      *)
(* principal.                                                              *)
C1_DisabledAccountRejected ==
    (/\ resp.op = "get_current_user"
     /\ IssuedAs(resp.token, "access") # {}
     /\ Unexpired(resp.token)
     /\ Blocked(Subject(resp.token)))
        => /\ resp.result = HTTPException(400, "User account is inactive or suspended")
           /\ "principal" \notin DOMAIN resp.result

C1_Witness ==
    /\ resp.op = "get_current_user"
    /\ IssuedAs(resp.token, "access") # {}
    /\ Unexpired(resp.token)
    /\ Blocked(Subject(resp.token))
    /\ users[Subject(resp.token)].status = SUSPENDED
    /\ resp.result.status = 400

(* C2: kind isolation.  A refresh token the service minted never           *)
(* authenticates, and an access token it minted never refreshes, although  *)
(* its signature and expiry are valid.                                     *)
C2_KindIsolation ==
    /\ (resp.op = "get_current_user" /\ IssuedAs(resp.token, "refresh") # {})
          => resp.result.status = 401
    /\ (resp.op = "refresh" /\ IssuedAs(resp.token, "access") # {})
          => resp.result.status = 401

C2_Witness ==
    /\ resp.op = "refresh"
    /\ IssuedAs(resp.token, "access") # {}
    /\ resp.at = now
    /\ Unexpired(resp.token)
    /\ UserExists(Subject(resp.token))
    /\ ~Blocked(Subject(resp.token))
    /\ resp.result.status = 401

(* C7: snapshot freshness on refresh.  The access token a successful       *)
(* refresh returns embeds the role names and the permission pairs the      *)
(* store holds for the user at refresh time.                               *)
C7_RefreshEmbedsFreshSnapshot ==
    (resp.op = "refresh" /\ resp.result.status = 200)
        => LET payload == resp.result.pair.access_token.claims
               user_id == Subject(resp.token)
           IN /\ payload["sub"] = resp.token.claims["sub"]
              /\ Range(extract_user_roles(payload)) = StoreRoleNames(user_id)
              /\ PayloadPermissionPairs(payload) = StorePermissionPairs(user_id)

\* a refresh whose token pair was minted with a different snapshot
C7_Witness ==
    /\ resp.op = "refresh"
    /\ resp.result.status = 200
    /\ \E r \in IssuedAs(resp.token, "refresh") :
          \E a \in issued :
            /\ a.kind = "access" /\ a.at = r.at /\ a.data = r.data
            /\ a.roles[1] # extract_user_roles(resp.result.pair.access_token.claims)
            /\ a.permissions[1]
                 # extract_user_permissions(resp.result.pair.access_token.claims)

(* C8: the principal's roles and permissions are the ones embedded when    *)
(* its access token was minted, whatever the store holds now, and its      *)
(* identity fields are the store's at request time.                        *)
C8_PrincipalSnapshotVerbatim ==
    (resp.op = "get_current_user" /\ resp.result.status = 200)
        => LET principal == resp.result.principal
           IN /\ \A e \in IssuedAs(resp.token, "access") :
                    /\ PrincipalRoles(principal) = e.roles[1]
                    /\ PrincipalPermissions(principal) = e.permissions[1]
              /\ IssuedAs(resp.token, "access") # {}
              /\ principal.id = Subject(resp.token)
              /\ UserExists(principal.id)
              /\ principal.is_active = users[principal.id].is_active
              /\ principal.status = users[principal.id].status
              /\ principal.is_superuser = users[principal.id].is_superuser
              /\ principal.email = users[principal.id].email

\* a principal whose snapshot is stale and whose identity is newer than its token
C8_Witness ==
    /\ resp.op = "get_current_user"
    /\ resp.result.status = 200
    /\ Range(PrincipalRoles(resp.result.principal))
          # StoreRoleNames(resp.result.principal.id)
    /\ PayloadPermissionPairs(resp.result.principal.token_payload)
          # StorePermissionPairs(resp.result.principal.id)
    /\ resp.result.principal.email # resp.token.claims["email"]

-----------------------------------------------------------------------------
(* Properties of the permission predicates, under SpecPred. *)

PredicateOps ==
    {"require_permission", "require_any_permission", "require_all_permissions",
     "require_self_or_permission"}

\* The requirement of the last predicate call is met by the principal's token
\* permissions (or by acting on oneself), without any superuser bypass.
MetByPermissions ==
    LET held == PayloadPermissionPairs(resp.current.principal.token_payload)
        required == Range(resp.required)
    IN CASE resp.op = "require_permission" -> required \subseteq held
         [] resp.op = "require_any_permission" -> required \cap held # {}
         [] resp.op = "require_all_permissions" -> required \subseteq held
         [] resp.op = "require_self_or_permission" ->
                \/ resp.current.principal.id = resp.target_user_id
                \/ required \subseteq held

(* C3: superuser bypass is decided at evaluation time: a predicate         *)
(* evaluated for a user who is not (or no longer) a superuser in the store *)
(* passes only on the token's permissions, never by bypass.  The code      *)
(* reads the flag baked into the token, so this is violated.               *)
C3_BypassDecidedAtEvaluation ==
    (/\ resp.op \in PredicateOps
     /\ resp.result.status = 200
     /\ ~users[resp.result.principal.id].is_superuser)
        => MetByPermissions

(* C4: superuser bypass: require_permission, require_any_permission and    *)
(* require_all_permissions pass for every requirement when the principal   *)
(* is a superuser.  Violated for a principal made superuser after its      *)
(* token was minted.                                                       *)
C4_SuperuserPassesEveryCheck ==
    (/\ resp.op \in {"require_permission", "require_any_permission",
                      "require_all_permissions"}
     /\ resp.current.status = 200
     /\ resp.current.principal.is_superuser)
        => resp.result.status = 200

(* C10: require_permission(resource, action) passes iff the principal is   *)
(* superuser or the pair is among the principal's token permissions, and   *)
(* fails with 403 otherwise.  Violated whenever the principal's superuser  *)
(* flag differs from the one in its token.                                 *)
C10_RequirePermissionIff ==
    (resp.op = "require_permission" /\ resp.current.status = 200)
        => /\ resp.result.status = 200
                <=> \/ resp.current.principal.is_superuser
                    \/ resp.required[1] \in
                         PayloadPermissionPairs(resp.current.principal.token_payload)
           /\ resp.result.status \in {200, 403}

-----------------------------------------------------------------------------
(* Properties of the codec, under SpecCodec. *)

(* C5: an access token made with expires_delta = timedelta(0) is rejected  *)
(* by verify_token at every time.  Violated: a zero delta is falsy and the *)
(* token gets the default lifetime.                                        *)
C5_ZeroTtlAlreadyRejected ==
    (/\ resp.op = "verify_token"
     /\ \E e \in IssuedAs(resp.token, "access") : e.expires_delta = Some(0))
        => resp.result = None

(* C6: no grace period: verify_token succeeds only while exp > now.        *)
(* Violated at now = exp, where the decode still succeeds.                 *)
C6_DecodeOnlyBeforeExp ==
    (resp.op = "verify_token" /\ resp.result # None)
        => resp.token.claims["exp"] > resp.at

(* C9: round trip.  Decoding, as an access token and before its expiry, an *)
(* access token made for a subject, a role list and a permission list      *)
(* returns that subject, that role list and that permission list.          *)
IntendedExpiry(e) ==
    e.at + (IF e.expires_delta = None THEN AccessTtl ELSE e.expires_delta[1])

C9_RoundTrip ==
    (/\ resp.op = "verify_token"
     /\ resp.token_type = "access"
     /\ resp.token \in tokens)
        => \A e \in IssuedAs(resp.token, "access") :
              (e.roles # None /\ e.permissions # None /\ resp.at < IntendedExpiry(e))
                 => /\ resp.result # None
                    /\ resp.result[1]["sub"] = e.data["sub"]
                    /\ int(resp.result[1]["sub"]) \in CodecUserIds
                    /\ extract_user_roles(resp.result[1]) = e.roles[1]
                    /\ extract_user_permissions(resp.result[1]) = e.permissions[1]

\* the round trip of an empty role list, a repeated permission and a two-digit subject
C9_Witness ==
    /\ resp.op = "verify_token"
    /\ resp.token_type = "access"
    /\ resp.token \in tokens
    /\ resp.result # None
    /\ \E e \in IssuedAs(resp.token, "access") :
          /\ e.roles = Some(<< >>)
          /\ e.permissions # None
          /\ Len(e.permissions[1]) = 2
          /\ e.permissions[1][1] = e.permissions[1][2]
          /\ resp.at < IntendedExpiry(e)
          /\ int(e.data["sub"]) = 12

-----------------------------------------------------------------------------
(* C11: for a principal who is not a superuser, require_any_permission(L)  *)
(* passes iff some pair of L is among the principal's token permissions,   *)
(* and fails with 403 otherwise, the empty L included.  Violated for a     *)
(* principal whose superuser status was revoked after its token was made:  *)
(* the token's flag still lets every non-empty L pass.                     *)
C11_RequireAnyIff ==
    (/\ resp.op = "require_any_permission"
     /\ resp.current.status = 200
     /\ ~resp.current.principal.is_superuser)
        => /\ resp.result.status = 200
                <=> Range(resp.required)
                      \cap PayloadPermissionPairs(resp.current.principal.token_payload)
                        # {}
           /\ resp.result.status \in {200, 403}

(* C12: for a principal who is not a superuser, require_all_permissions(L) *)
(* passes iff every pair of L is among the principal's token permissions   *)
(* (so it passes for the empty L), and fails with 403 otherwise.  Violated *)
(* for a principal whose superuser status was revoked after its token was  *)
(* made.                                                                   *)
C12_RequireAllIff ==
    (/\ resp.op = "require_all_permissions"
     /\ resp.current.status = 200
     /\ ~resp.current.principal.is_superuser)
        => /\ resp.result.status = 200
                <=> Range(resp.required)
                      \subseteq PayloadPermissionPairs(resp.current.principal.token_payload)
           /\ resp.result.status \in {200, 403}

(* C13: self bypass.  require_self_or_permission(resource, action) with    *)
(* target user id uid passes iff the principal's id is uid or              *)
(* require_permission(resource, action) passes for the same principal, and *)
(* fails with 403 otherwise; a principal with no permissions for whom      *)
(* require_permission fails passes on its own id and gets 403 on any other.*)
C13_SelfOrPermissionIff ==
    (resp.op = "require_self_or_permission" /\ resp.current.status = 200)
        => LET principal == resp.current.principal
               one == require_permission(resp.required[1][1], resp.required[1][2],
                                         resp.current)
           IN /\ resp.result.status = 200
                   <=> (principal.id = resp.target_user_id \/ one.status = 200)
              /\ resp.result.status = 200 => resp.result = resp.current
              /\ resp.result.status # 200 => resp.result.status = 403
              /\ (PrincipalPermissions(principal) = << >> /\ one.status # 200)
                   => (resp.result.status = 200
                         <=> principal.id = resp.target_user_id)

\* a principal with no permissions and no superuser flag passes on its own id
C13_Witness ==
    /\ resp.op = "require_self_or_permission"
    /\ resp.current.status = 200
    /\ PrincipalPermissions(resp.current.principal) = << >>
    /\ ~resp.current.principal.is_superuser
    /\ ~resp.current.principal.token_payload["is_superuser"]
    /\ resp.current.principal.id = resp.target_user_id
    /\ resp.result.status = 200

-----------------------------------------------------------------------------
(* Properties of login, authenticate and refresh, under SpecAuth. *)

\* The token is signed with the service's key, is not expired and is of the kind.
DecodesAs(token, kind) ==
    /\ token.key = SECRET_KEY
    /\ "exp" \in DOMAIN token.claims
    /\ token.claims["exp"] >= now
    /\ "type" \in DOMAIN token.claims
    /\ token.claims["type"] = kind

\* Some account has the email and the password, is active and in active state.
LoginAllowed(email, password) ==
    \E i \in DOMAIN users :
        /\ users[i].email = email
        /\ users[i].hashed_password = get_password_hash(password)
        /\ users[i].is_active
        /\ users[i].status = ACTIVE

(* C14: enumeration resistance.  login answers the one error 401           *)
(* "Incorrect email or password" for an unknown email, for a wrong         *)
(* password and for the right password of an account that is inactive or  *)
(* not in active state, and succeeds exactly when the account exists, is   *)
(* active, is in active state and the password verifies.                   *)
C14_LoginUniformFailure ==
    resp.op = "login"
        => /\ resp.result.status = 200 <=> LoginAllowed(resp.email, resp.password)
           /\ resp.result.status # 200
                => resp.result = HTTPException(401, "Incorrect email or password")
           /\ resp.result.status = 200
                => /\ resp.result.user.email = resp.email
                   /\ resp.result.pair.access_token \in tokens

\* the right password of an account whose status alone is not active
C14_Witness ==
    /\ resp.op = "login"
    /\ \E i \in DOMAIN users :
          /\ users[i].email = resp.email
          /\ users[i].hashed_password = get_password_hash(resp.password)
          /\ users[i].is_active
          /\ users[i].status = SUSPENDED
    /\ resp.result = HTTPException(401, "Incorrect email or password")

(* C15: authenticate (get_current_user) gives exactly one of three         *)
(* outcomes: 401 when the token does not decode as an access token, has no *)
(* subject or its subject is not in the store; 400 when the token is valid *)
(* and the user exists but is inactive or not in active state; the         *)
(* principal of the subject otherwise.                                     *)
C15_AuthenticateClassifies ==
    (resp.op = "get_current_user" /\ resp.at = now)
        => LET valid == DecodesAs(resp.token, "access") /\ HasSubject(resp.token)
               known == valid /\ UserExists(Subject(resp.token))
           IN /\ resp.result.status \in {200, 400, 401}
              /\ resp.result.status = 401 <=> ~known
              /\ resp.result.status = 400 <=> (known /\ Blocked(Subject(resp.token)))
              /\ resp.result.status = 200 <=> (known /\ ~Blocked(Subject(resp.token)))
              /\ resp.result.status = 200
                   <=> ("principal" \in DOMAIN resp.result
                          /\ resp.result.principal.id = Subject(resp.token))

\* a valid access token whose subject was deleted
C15_Witness ==
    /\ resp.op = "get_current_user"
    /\ resp.at = now
    /\ DecodesAs(resp.token, "access")
    /\ HasSubject(resp.token)
    /\ ~UserExists(Subject(resp.token))
    /\ resp.result.status = 401

(* C16: refresh with a validly signed, unexpired refresh token whose       *)
(* subject is missing from the store or inactive fails with the same error *)
(* as an undecodable refresh token.  Violated: the code answers 401 "User  *)
(* not found or inactive" instead of 401 "Invalid refresh token".          *)
C16_RefreshHidesSubjectState ==
    (/\ resp.op = "refresh"
     /\ resp.at = now
     /\ DecodesAs(resp.token, "refresh")
     /\ HasSubject(resp.token)
     /\ \/ ~UserExists(Subject(resp.token))
        \/ ~users[Subject(resp.token)].is_active)
        => resp.result = refresh_token(Malformed)

-----------------------------------------------------------------------------
(* Properties of the tokens login and refresh mint, under Spec. *)

(* C18: every refresh token minted by login or refresh carries identity    *)
(* only: no roles, no permissions and no superuser flag.  Violated: the    *)
(* refresh token is made from the same token data as the access token,     *)
(* which holds is_superuser.                                               *)
C18_RefreshTokenIdentityOnly ==
    \A e \in issued :
        e.kind = "refresh"
            => DOMAIN e.token.claims \cap {"roles", "permissions", "is_superuser"} = {}

(* C19: the access token of a successful login embeds exactly the names of *)
(* the user's roles that are active in the store at login time and exactly *)
(* the permissions reachable through those roles; user u1 with role editor *)
(* granting (doc, write) gets roles [editor] and permissions               *)
(* [(doc, write)].                                                         *)
C19_LoginSnapshotIsActiveRoles ==
    (resp.op = "login" /\ resp.result.status = 200)
        => LET payload == resp.result.pair.access_token.claims
               user_id == resp.result.user.id
           IN /\ int(payload["sub"]) = user_id
              /\ Range(extract_user_roles(payload)) = StoreRoleNames(user_id)
              /\ Len(extract_user_roles(payload)) = Cardinality(StoreRoleNames(user_id))
              /\ PayloadPermissionPairs(payload) = StorePermissionPairs(user_id)
              /\ (/\ StoreRoleNames(user_id) = {"editor"}
                  /\ StorePermissionPairs(user_id) = {<<"doc", "write">>})
                    => /\ extract_user_roles(payload) = <<"editor">>
                       /\ extract_user_permissions(payload)
                            = <<[resource |-> "doc", action |-> "write"]>>

\* a login of a user one of whose roles is inactive and grants a permission
C19_Witness ==
    /\ resp.op = "login"
    /\ resp.result.status = 200
    /\ \E r \in DOMAIN roles :
          /\ <<resp.result.user.id, r>> \in user_role_links
          /\ ~roles[r].is_active
          /\ \E p \in DOMAIN permissions : <<r, p>> \in role_permission_links
          /\ roles[r].name \notin
                Range(extract_user_roles(resp.result.pair.access_token.claims))

-----------------------------------------------------------------------------
(* Properties of the snapshot, under SpecSnap. *)

(* C20: the permission list embedded in every access token is              *)
(* deduplicated: no (resource, action) pair occurs twice.  Violated: the   *)
(* query is DISTINCT on permission rows, and two rows with different names *)
(* may hold the same pair.                                                 *)
C20_SnapshotPermissionsDeduplicated ==
    \A e \in issued :
        e.kind = "access"
            => ~HasDuplicates(extract_user_permissions(e.token.claims))

-----------------------------------------------------------------------------
(* Properties of the account state and the role links in the store. *)

(* C28: account lifecycle invariant.  For every user, after any sequence   *)
(* of the store operations that change account state, is_active is true    *)
(* iff status is ACTIVE.  Violated: update_user writes is_active or status *)
(* alone, whichever the request sets.                                      *)
C28_ActiveIffStatusActive ==
    \A u \in DOMAIN users : users[u].is_active <=> (users[u].status = ACTIVE)

(* C29: a blocked account cannot obtain new credentials.  Every successful *)
(* login or refresh was answered for a user row that is active and whose   *)
(* status is ACTIVE.  Violated: refresh tests is_active only, so a user    *)
(* whose status update_user set to SUSPENDED still gets a new token pair.  *)
C29_BlockedAccountGetsNoCredentials ==
    (resp.op \in {"login", "refresh"} /\ resp.result.status = 200)
        => resp.result.user.is_active /\ resp.result.user.status = ACTIVE

(* C30: assign_roles_to_user has replace semantics for any list of role    *)
(* ids, repeated ids included: after the call the user's role links are    *)
(* exactly the ids in the list.  Violated: a list with a repeated id       *)
(* inserts the same primary key twice, the commit fails and the former     *)
(* links stay.                                                             *)
C30_AssignRolesReplaces ==
    resp.op = "assign_roles_to_user"
        => {l[2] : l \in {x \in user_role_links : x[1] = resp.user_id}}
              = Range(resp.role_ids)

-----------------------------------------------------------------------------
(* Properties of the administration endpoints, under SpecApi.  A response  *)
(* is read in the state its endpoint left.                                 *)

\* The caller of the last endpoint was authenticated.  The principal's
\* is_superuser is the stored flag, not the token's.
Authenticated == "current" \in DOMAIN resp /\ resp.current.status = 200

(* C23: a user cannot change their own status or active state.  After      *)
(* update_user_endpoint called by a non-superuser on their own id, and     *)
(* after update_my_profile called by anyone, the caller's stored is_active *)
(* and status are what they were, whatever the request carries;            *)
(* update_my_profile leaves is_superuser and the role links as they were   *)
(* too.                                                                    *)
C23_OwnAccountStateUnchanged ==
    /\ (/\ resp.op = "update_user_endpoint"
        /\ Authenticated
        /\ ~resp.current.principal.is_superuser
        /\ resp.user_id = resp.current.principal.id)
          => /\ UserExists(resp.user_id)
             /\ users[resp.user_id].is_active
                  = resp.before.users[resp.user_id].is_active
             /\ users[resp.user_id].status = resp.before.users[resp.user_id].status
    /\ (resp.op = "update_my_profile" /\ Authenticated)
          => LET id == resp.current.principal.id
             IN /\ UserExists(id)
                /\ users[id].is_active = resp.before.users[id].is_active
                /\ users[id].status = resp.before.users[id].status
                /\ users[id].is_superuser = resp.before.users[id].is_superuser
                /\ user_role_links = resp.before.user_role_links

\* a non-superuser asked to deactivate their own account and is still active
C23_Witness ==
    /\ resp.op = "update_user_endpoint"
    /\ Authenticated
    /\ ~resp.current.principal.is_superuser
    /\ resp.user_id = resp.current.principal.id
    /\ resp.target_user_id = resp.user_id
    /\ resp.user_update = [is_active |-> Some(FALSE)]
    /\ users[resp.user_id].is_active

(* C24: non-superusers cannot modify superuser status.  update_user_       *)
(* endpoint called by a principal whose is_superuser is false with         *)
(* is_superuser set in the request answers 403 and changes nothing in the  *)
(* store; and no call of update_user_endpoint or update_my_profile by a    *)
(* non-superuser changes any user's is_superuser flag.                     *)
C24_SuperuserFlagGuarded ==
    /\ (/\ resp.op = "update_user_endpoint"
        /\ Authenticated
        /\ ~resp.current.principal.is_superuser
        /\ Get(resp.user_update, "is_superuser", None) # None)
          => /\ resp.result.status = 403
             /\ users = resp.before.users
             /\ user_role_links = resp.before.user_role_links
    /\ (/\ resp.op \in {"update_user_endpoint", "update_my_profile"}
        /\ Authenticated
        /\ ~resp.current.principal.is_superuser)
          => /\ DOMAIN users = DOMAIN resp.before.users
             /\ \A u \in DOMAIN users :
                   users[u].is_superuser = resp.before.users[u].is_superuser

\* an administrator who is not superuser asked to make another user superuser
C24_Witness ==
    /\ resp.op = "update_user_endpoint"
    /\ Authenticated
    /\ ~resp.current.principal.is_superuser
    /\ has_permission(resp.current.principal, "user", "update")
    /\ resp.user_id # resp.current.principal.id
    /\ resp.user_update = [is_superuser |-> Some(TRUE)]
    /\ resp.result = HTTPException(403, "Cannot modify superuser status")
    /\ ~users[resp.user_id].is_superuser

(* C25: a user can never delete their own account through                  *)
(* delete_user_endpoint.  When the principal's id is the target user_id    *)
(* the call fails and the user record still exists, even for a superuser   *)
(* or a holder of (user, delete).                                          *)
C25_NoSelfDelete ==
    (/\ resp.op = "delete_user_endpoint"
     /\ Authenticated
     /\ resp.user_id = resp.current.principal.id)
        => /\ resp.result.status # 200
           /\ UserExists(resp.user_id)
           /\ users = resp.before.users
           /\ user_role_links = resp.before.user_role_links

\* a holder of (user, delete) asked to delete their own account
C25_Witness ==
    /\ resp.op = "delete_user_endpoint"
    /\ Authenticated
    /\ has_permission(resp.current.principal, "user", "delete")
    /\ resp.user_id = resp.current.principal.id
    /\ resp.result = HTTPException(400, "Cannot delete your own account")
    /\ UserExists(resp.user_id)

(* C26: users can view and check their own permissions.                    *)
(* get_user_permissions_endpoint and check_user_permission_endpoint        *)
(* succeed for an authenticated non-superuser whose user_id is their own   *)
(* id, even without (user, read); for another user_id they succeed only    *)
(* for a superuser or a holder of (user, read).  Violated: both endpoints  *)
(* depend on require_user_read, which answers 403 before the own-id test.  *)
C26_OwnPermissionsViewable ==
    (/\ resp.op \in {"get_user_permissions_endpoint",
                     "check_user_permission_endpoint"}
     /\ Authenticated
     /\ ~resp.current.principal.is_superuser)
        => /\ resp.user_id = resp.current.principal.id
                => resp.result.status = 200
           /\ (resp.user_id # resp.current.principal.id
                  /\ resp.result.status = 200)
                => has_permission(resp.current.principal, "user", "read")

(* C27: no self-service privilege escalation.  A principal that is not     *)
(* superuser and whose token holds neither (user, update) nor              *)
(* (role, update) cannot change the roles assigned to any user through     *)
(* update_user_endpoint, update_my_profile and                             *)
(* assign_roles_to_user_endpoint.  Violated: update_user_endpoint lets the *)
(* caller in when the query parameter target_user_id is the caller's id    *)
(* and then updates the user of the path parameter user_id.                *)
C27_NoRoleChangeWithoutPermission ==
    (/\ resp.op \in {"update_user_endpoint", "update_my_profile",
                     "assign_roles_to_user_endpoint"}
     /\ Authenticated
     /\ ~resp.current.principal.is_superuser
     /\ ~has_permission(resp.current.principal, "user", "update")
     /\ ~has_permission(resp.current.principal, "role", "update"))
        => user_role_links = resp.before.user_role_links

-----------------------------------------------------------------------------
(* Properties of refresh under concurrency and password change, under      *)
(* SpecRefresh.                                                            *)

\* Request r has been answered; it presented a refresh token the service
\* minted, unexpired when presented, of a user who exists and is active.
AnsweredValid(r) ==
    /\ calls[r].pc = "done"
    /\ IssuedAs(calls[r].token, "refresh") # {}
    /\ calls[r].token.key = SECRET_KEY
    /\ calls[r].token.claims["exp"] >= calls[r].at
    /\ UserExists(Subject(calls[r].token))
    /\ users[Subject(calls[r].token)].is_active

\* The answer is a success with a pair that decodes when returned and is
\* the pair a request served alone gets.
SucceededAlone(r) ==
    /\ calls[r].result.status = 200
    /\ LET pair == calls[r].result.pair
       IN /\ pair.access_token.key = SECRET_KEY
          /\ pair.access_token.claims["type"] = "access"
          /\ pair.access_token.claims["exp"] >= calls[r].returned_at
          /\ pair.refresh_token.key = SECRET_KEY
          /\ pair.refresh_token.claims["type"] = "refresh"
          /\ pair.refresh_token.claims["exp"] >= calls[r].returned_at
          /\ {pair.access_token, pair.refresh_token} \subseteq tokens
          /\ calls[r].returned_at = now
                => pair = refresh_token(calls[r].token).pair

(* C21: two concurrent refresh calls presenting the same valid refresh     *)
(* token both succeed under every interleaving of their store reads, each  *)
(* returns a valid access/refresh pair, the pair a call served alone gets; *)
(* no step of a refresh call modifies the user/role store.                 *)
C21_ConcurrentRefreshHarmless ==
    /\ [](\A r \in Requests : AnsweredValid(r) => SucceededAlone(r))
    /\ [][calls' # calls => store' = store]_vars

\* both requests presented the same token, the second was in flight when
\* the first was answered, and both succeeded
C21_Witness ==
    /\ AnsweredValid(1)
    /\ AnsweredValid(2)
    /\ calls[1].token = calls[2].token
    /\ calls[1].overlapped = {2}
    /\ calls[1].result.status = 200
    /\ calls[2].result.status = 200

(* C22: refresh tokens are not invalidated by use or by a password change. *)
(* After a successful refresh with token T and after update_user_password  *)
(* for its user, a further refresh presenting T succeeds as long as T is   *)
(* unexpired and the user exists and is active.                            *)
C22_RefreshSurvivesUseAndPasswordChange ==
    (/\ resp.op = "refresh"
     /\ resp.at = now
     /\ IssuedAs(resp.token, "refresh") # {}
     /\ Unexpired(resp.token)
     /\ UserExists(Subject(resp.token))
     /\ users[Subject(resp.token)].is_active)
        => /\ resp.result.status = 200
           /\ resp.result.user.id = Subject(resp.token)
           /\ {resp.result.pair.access_token, resp.result.pair.refresh_token}
                 \subseteq tokens

\* T was used by an answered request under the old password and again
\* after the password change
C22_Witness ==
    /\ resp.op = "refresh"
    /\ resp.result.status = 200
    /\ resp.result.user.hashed_password \in {get_password_hash(p) : p \in NewPasswords}
    /\ \E r \in Requests :
          /\ calls[r].pc = "done"
          /\ calls[r].token = resp.token
          /\ calls[r].result.status = 200
          /\ calls[r].result.user.hashed_password # resp.result.user.hashed_password

=============================================================================
